---- MODULE Spec2Model ----
(***************************************************************************)
(* AriaTreeView (src/AriaTreeView.js): an ARIA tree view layered on nested *)
(* <details>/<summary> elements.                                           *)
(*                                                                         *)
(* A Node is a <summary role="treeitem">; its Group is the <details> that  *)
(* holds it.  Nodes are numbered 1..n in document order, so the hierarchy  *)
(* is the function parent (parent[n] = 0 for the root Group).  Indices     *)
(* into visibleTreeItems are 0-based as in the JavaScript.                 *)
(*                                                                         *)
(* Event plumbing (addEventListener / dispatchEvent) is inherited from a   *)
(* base class that is not part of the repository.  It is taken to deliver  *)
(* a dispatched event synchronously to the listeners registered for its    *)
(* type, and a listener never throws back into the dispatcher.             *)
(***************************************************************************)
EXTENDS Integers, Sequences, FiniteSets, TLC

\* Bounds of the model: the deepest nesting of Groups in the markup, and the
\* number of scheduled callbacks that may be pending at once.
MaxDepth == 3
MaxTimers == 2

\* Bound of the model: the nesting of listener calls the call stack admits.
StackLimit == 3

\* JavaScript null (querySelector found nothing) and undefined.
Null == 0
Undefined == -1

VARIABLES
    parent,            \* the markup: parent[n] is the Node whose Group holds n's Group
    open,              \* open[n]: the open attribute of n's <details>
    ariaSelected,      \* the Nodes that carry aria-selected="true"
    tabindex,          \* tabindex attribute of every Node
    visibleTreeItems,  \* this.visibleTreeItems
    selectedIndex,     \* this._selectedIndex
    loaded,            \* this.loaded
    timers,            \* callbacks scheduled with setTimeout(..., 10), oldest first
    last               \* what the most recent handler did (observation only)

vars == <<parent, open, ariaSelected, tabindex, visibleTreeItems, selectedIndex,
          loaded, timers, last>>

----------------------------------------------------------------------------
(* The hierarchy                                                           *)

Range(s) == {s[i] : i \in 1..Len(s)}

RECURSIVE Ancestors(_, _)
\* The Nodes whose Groups strictly enclose n's Group.
Ancestors(p, n) == IF p[n] = 0 THEN {} ELSE {p[n]} \cup Ancestors(p, p[n])

\* The markups considered: Groups nested one inside the other (the markup of
\* the README and of the class comment) to every depth up to MaxDepth, the
\* container without any tree item, and a root Group holding two sibling
\* Groups.
Hierarchies ==
    {[i \in 1..n |-> i - 1] : n \in 0..MaxDepth} \cup {<<0, 1, 1>>}

Nodes == 1..Len(parent)

Children(n) == {c \in Nodes : parent[c] = n}

\* details.querySelectorAll('details') for the Group of n.
Descendants(n) == {d \in Nodes : n \in Ancestors(parent, d)}

\* n's label is rendered: no enclosing Group is closed.
Shown(op, n) == \A a \in Ancestors(parent, n) : op[a]

\* The Nodes of S in document order.
DocOrder(S) == SelectSeq([i \in 1..Len(parent) |-> i], LAMBDA n : n \in S)

\* array[i] in JavaScript, 0-based; undefined when out of range.
Item(vis, i) == IF i \in 0..(Len(vis) - 1) THEN vis[i + 1] ELSE Undefined

\* array.indexOf(x)
IndexOf(vis, x) ==
    IF x \in Range(vis) THEN (CHOOSE i \in 1..Len(vis) : vis[i] = x) - 1 ELSE -1

----------------------------------------------------------------------------
(* The widget's methods, as functions of a world record w:                 *)
(*   open, aria, tab, vis, idx, loaded, timers   the state                 *)
(*   notes   details of the selectionchange events the setter dispatched   *)
(*   disp    number of dispatchEvent calls, those made by listeners too    *)
(*   overflow  the call stack was exhausted                                *)
(*   listening  the constructor has registered _onSelectionChange          *)
(*   foc     Nodes on which item.focus() was called by this handler        *)
(*   sel     arguments of the setSelected calls of this handler            *)
(*   csf     Nodes passed to closeSubfolders by this handler               *)
(*   upd     updateTreeItems() ran in this handler                         *)
(*   fault   an exception left this handler                                *)

RECURSIVE Dispatch(_, _)
\* this.dispatchEvent(new CustomEvent('selectionchange', ...)) made at nesting
\* depth: the event reaches the listener the constructor registered, which is
\* _onSelectionChange and dispatches again.
Dispatch(w, depth) ==
    LET w1 == [w EXCEPT !.disp = @ + 1]
    IN  IF ~w.listening THEN w1
        ELSE IF depth >= StackLimit THEN [w1 EXCEPT !.overflow = TRUE]
        ELSE Dispatch(w1, depth + 1)

\* _onSelectionChange: this.selectedItem is never defined by the class.
OnSelectionChange(w) ==
    Dispatch([w EXCEPT !.notes = Append(@, [selectedIndex |-> w.idx,
                                            selectedItem |-> Undefined])], 0)

\* The setter without its guard: it notifies on every assignment.
SetSelectedIndex_Unguarded(w, value) == OnSelectionChange([w EXCEPT !.idx = value])

\* set selectedIndex(value)
SetSelectedIndex(w, value) ==
    IF w.idx # value THEN OnSelectionChange([w EXCEPT !.idx = value]) ELSE w

\* updateTreeItems() with children == null, and the recursive call it makes.
UpdateTreeItems(w) ==
    LET first == IF Len(parent) = 0 THEN Null ELSE 1
        \* querySelectorAll('[open=""] > details')
        children == {n \in Nodes : parent[n] # 0 /\ w.open[parent[n]]}
    IN  [w EXCEPT !.vis = <<first>> \o DocOrder(children), !.upd = TRUE]

\* setSelected with item.focus() not conditioned on this.loaded.
SetSelected_NoLatch(w, index) ==
    IF Null \in Range(w.vis)
    THEN [w EXCEPT !.sel = Append(@, index), !.fault = TRUE]
    ELSE LET item == Item(w.vis, index)
             hit == item # Undefined
             w1 == [w EXCEPT
                      !.sel = Append(@, index),
                      !.aria = (@ \ Range(w.vis)) \cup (IF hit THEN {item} ELSE {}),
                      !.tab = [n \in DOMAIN @ |->
                                 IF n = item THEN "0"
                                 ELSE IF n \in Range(w.vis) THEN "-1" ELSE @[n]],
                      !.foc = IF hit THEN Append(@, item) ELSE @,
                      !.loaded = IF hit THEN TRUE ELSE @]
         IN  SetSelectedIndex(w1, index)

\* setSelected(index)
SetSelected(w, index) ==
    IF Null \in Range(w.vis)
    THEN [w EXCEPT !.sel = Append(@, index), !.fault = TRUE]
    ELSE LET item == Item(w.vis, index)
             hit == item # Undefined
             w1 == [w EXCEPT
                      !.sel = Append(@, index),
                      !.aria = (@ \ Range(w.vis)) \cup (IF hit THEN {item} ELSE {}),
                      !.tab = [n \in DOMAIN @ |->
                                 IF n = item THEN "0"
                                 ELSE IF n \in Range(w.vis) THEN "-1" ELSE @[n]],
                      !.foc = IF hit /\ w.loaded THEN Append(@, item) ELSE @,
                      !.loaded = IF hit THEN TRUE ELSE @]
         IN  SetSelectedIndex(w1, index)

\* setTimeout(callback, 10); node is the <details> the callback captured.
Schedule(w, kind, n) == [w EXCEPT !.timers = Append(@, [kind |-> kind, node |-> n])]

\* expand(index)
Expand(w, index) ==
    LET item == Item(w.vis, index)
    IN  IF item \in {Null, Undefined} THEN w
        ELSE Schedule([w EXCEPT !.open[item] = TRUE], "updateTreeItems", 0)

\* collapse(index)
Collapse(w, index) ==
    LET item == Item(w.vis, index)
    IN  IF item \in {Null, Undefined} THEN w
        ELSE UpdateTreeItems(
               [w EXCEPT !.open = [n \in DOMAIN @ |->
                                     IF n = item \/ n \in Descendants(item)
                                     THEN FALSE ELSE @[n]]])

\* selectPrevious(e)
SelectPrevious(w) == IF w.idx > 0 THEN SetSelected(w, w.idx - 1) ELSE w

\* selectNext with its bound off by one.
SelectNext_OffByOne(w) ==
    IF w.idx + 1 <= Len(w.vis) THEN SetSelected(w, w.idx + 1) ELSE w

\* selectNext(e)
SelectNext(w) == IF w.idx + 1 < Len(w.vis) THEN SetSelected(w, w.idx + 1) ELSE w

\* closeSubfolders(item): only schedules the callback.
CloseSubfolders(w, item) ==
    Schedule([w EXCEPT !.csf = Append(@, item)], "closeSubfolders", item)

\* The callback without its test of details.open.
CloseSubfoldersCallback_Unconditional(w, item) ==
    UpdateTreeItems(
        [w EXCEPT !.open = [n \in DOMAIN @ |->
                              IF n \in Descendants(item) THEN FALSE ELSE @[n]]])

\* The callback closeSubfolders schedules.
CloseSubfoldersCallback(w, item) ==
    UpdateTreeItems(
        IF ~w.open[item]
        THEN [w EXCEPT !.open = [n \in DOMAIN @ |->
                                   IF n \in Descendants(item) THEN FALSE ELSE @[n]]]
        ELSE w)

\* handleTIClick(e), e.currentTarget = n
HandleTIClick(w, n) ==
    LET index == IndexOf(w.vis, n)
    IN  IF index >= 0
        THEN LET w1 == SetSelected(w, index)
             IN  IF w1.fault THEN w1 ELSE CloseSubfolders(w1, n)
        ELSE w

\* handleTVClick(e)
HandleTVClick(w) == SetSelected(w, w.idx)

\* handleTIKeyDown(e); "Enter" stands for every key the handler leaves inert.
Keys == {"ArrowRight", "ArrowLeft", "ArrowUp", "ArrowDown", "Home", "End", "Enter"}

HandleTIKeyDown(w, key) ==
    CASE key = "ArrowRight" -> Expand(w, w.idx)
      [] key = "ArrowLeft"  -> Collapse(w, w.idx)
      [] key = "ArrowUp"    -> SelectPrevious(w)
      [] key = "ArrowDown"  -> SelectNext(w)
      [] key = "Home"       -> SetSelected(w, 0)
      [] key = "End"        -> SetSelected(w, Len(w.vis) - 1)
      [] OTHER              -> w

\* The browser's activation behaviour of a click on a <summary>.
NativeToggle(w, n) == [w EXCEPT !.open[n] = ~@]

----------------------------------------------------------------------------
(* Construction                                                            *)

NoTimer == [kind |-> "none", node |-> 0]

\* The world a handler starts from.
World(op, ar, tb, vis, idx, ld, tm) ==
    [open |-> op, aria |-> ar, tab |-> tb, vis |-> vis, idx |-> idx, loaded |-> ld,
     timers |-> tm, notes |-> <<>>, foc |-> <<>>, sel |-> <<>>, csf |-> <<>>,
     upd |-> FALSE, fault |-> FALSE, disp |-> 0, overflow |-> FALSE,
     listening |-> TRUE]

\* new AriaTreeView(root) on markup with open flags op and pre-marked Nodes pre.
Constructor(op, pre) ==
    LET w0 == [World(op, pre, [n \in DOMAIN op |-> "unset"], <<>>, Undefined, FALSE, <<>>)
                 EXCEPT !.listening = FALSE]
        \* constructor: this.selectedIndex = 0, then addEventListener
        w1 == [SetSelectedIndex(w0, 0) EXCEPT !.listening = TRUE]
        \* init(): this.loaded = false; this.updateTreeItems()
        w2 == UpdateTreeItems(w1)
        \* findIndex reads item.getAttribute of every item up to the first match
        marked == {i \in 0..(Len(w2.vis) - 1) : w2.vis[i + 1] \in w2.aria}
        initiallySelected ==
            IF marked = {} THEN -1 ELSE CHOOSE i \in marked : \A j \in marked : i <= j
    IN  IF Null \in Range(w2.vis)
        THEN [w2 EXCEPT !.fault = TRUE]
        ELSE LET w3 == SetSelectedIndex(w2, IF initiallySelected >= 0
                                            THEN initiallySelected ELSE 0)
             IN  SetSelected(w3, w3.idx)

\* No ArrowRight is being followed.
NoWatch == [node |-> 0, idx0 |-> 0, ahead |-> 0]

Init ==
    \E p \in Hierarchies :
      \E op \in [1..Len(p) -> BOOLEAN] :
        \* at most one label is pre-marked aria-selected="true", one the page shows
        \E pre \in {s \in SUBSET (1..Len(p)) :
                      Cardinality(s) <= 1 /\ \A n \in s : \A a \in Ancestors(p, n) : op[a]} :
          /\ parent = p
          /\ \E w \in {Constructor(op, pre)} :
                 /\ open = w.open
                 /\ ariaSelected = w.aria
                 /\ tabindex = w.tab
                 /\ visibleTreeItems = w.vis
                 /\ selectedIndex = w.idx
                 /\ loaded = w.loaded
                 /\ timers = w.timers
                 /\ last = [op |-> "init", arg |-> 0, notes |-> w.notes, foc |-> w.foc,
                            sel |-> w.sel, csf |-> w.csf, upd |-> w.upd,
                            fault |-> w.fault, disp |-> w.disp,
                            overflow |-> w.overflow, timer |-> NoTimer,
                            watch |-> NoWatch]

----------------------------------------------------------------------------
(* Events                                                                  *)

Now == World(open, ariaSelected, tabindex, visibleTreeItems, selectedIndex, loaded, timers)

\* Observation: the ArrowRight whose delayed re-scan is awaited, while only
\* callbacks run after it.  ahead counts the callbacks scheduled before its
\* own; ahead = -1 marks the step in which its own re-scan has just run.
Watch(op) ==
    CASE op = "ArrowRight" /\ Item(visibleTreeItems, selectedIndex) \notin {Null, Undefined} ->
            [node |-> Item(visibleTreeItems, selectedIndex), idx0 |-> selectedIndex,
             ahead |-> Len(timers)]
      [] op = "timeout" /\ last.watch.node # 0 /\ last.watch.ahead >= 0 ->
            [last.watch EXCEPT !.ahead = @ - 1]
      [] OTHER -> NoWatch

Commit(w, op, arg, tm) ==
    /\ Len(w.timers) <= MaxTimers
    /\ open' = w.open
    /\ ariaSelected' = w.aria
    /\ tabindex' = w.tab
    /\ visibleTreeItems' = w.vis
    /\ selectedIndex' = w.idx
    /\ loaded' = w.loaded
    /\ timers' = w.timers
    /\ last' = [op |-> op, arg |-> arg, notes |-> w.notes, foc |-> w.foc,
                sel |-> w.sel, csf |-> w.csf, upd |-> w.upd, fault |-> w.fault,
                disp |-> w.disp, overflow |-> w.overflow,
                timer |-> tm, watch |-> Watch(op)]
    /\ UNCHANGED parent

\* keydown on a tree item that has input focus, one action per key.  The
\* handler never reads which tree item that is.
ArrowRight ==
    /\ Nodes # {}
    /\ \E w \in {HandleTIKeyDown(Now, "ArrowRight")} : Commit(w, "ArrowRight", 0, NoTimer)

ArrowLeft ==
    /\ Nodes # {}
    /\ \E w \in {HandleTIKeyDown(Now, "ArrowLeft")} : Commit(w, "ArrowLeft", 0, NoTimer)

ArrowUp ==
    /\ Nodes # {}
    /\ \E w \in {HandleTIKeyDown(Now, "ArrowUp")} : Commit(w, "ArrowUp", 0, NoTimer)

ArrowDown ==
    /\ Nodes # {}
    /\ \E w \in {HandleTIKeyDown(Now, "ArrowDown")} : Commit(w, "ArrowDown", 0, NoTimer)

Home ==
    /\ Nodes # {}
    /\ \E w \in {HandleTIKeyDown(Now, "Home")} : Commit(w, "Home", 0, NoTimer)

End ==
    /\ Nodes # {}
    /\ \E w \in {HandleTIKeyDown(Now, "End")} : Commit(w, "End", 0, NoTimer)

InertKey ==
    /\ Nodes # {}
    /\ \E w \in {HandleTIKeyDown(Now, "Enter")} : Commit(w, "Enter", 0, NoTimer)

\* A click on the label of n: mouseup on n, then click bubbling to the root,
\* then the native toggle of n's <details>.
ClickNode ==
    \E n \in Nodes :
        /\ Shown(open, n)
        /\ \E w1 \in {HandleTIClick(Now, n)} :
             \E w2 \in {HandleTVClick([w1 EXCEPT !.fault = FALSE])} :
               \E w3 \in {NativeToggle([w2 EXCEPT !.fault = w1.fault \/ w2.fault], n)} :
                 Commit(w3, "click", n, NoTimer)

\* A click inside the container that is on no Node.
ClickElsewhere == \E w \in {HandleTVClick(Now)} : Commit(w, "tvclick", 0, NoTimer)

\* The oldest scheduled callback runs.
Timeout ==
    /\ timers # <<>>
    /\ LET t == Head(timers)
           w0 == [Now EXCEPT !.timers = Tail(timers)]
       IN  \E w \in {IF t.kind = "updateTreeItems"
                      THEN UpdateTreeItems(w0)
                      ELSE CloseSubfoldersCallback(w0, t.node)} :
               Commit(w, "timeout", t.node, t)

Next ==
    \/ ArrowRight \/ ArrowLeft \/ ArrowUp \/ ArrowDown \/ Home \/ End \/ InertKey
    \/ ClickNode \/ ClickElsewhere \/ Timeout

Spec == Init /\ [][Next]_vars

----------------------------------------------------------------------------
(* Properties                                                              *)

\* The Nodes of visibleTreeItems (null is no Node).
VisibleNodes == Range(visibleTreeItems) \ {Null}

\* The Nodes of visibleTreeItems that carry aria-selected="true".
SelectedVisible == VisibleNodes \cap ariaSelected

\* The Nodes reachable from the root without passing through a closed Group,
\* in document order.
Projection(op) == DocOrder({n \in Nodes : Shown(op, n)})

\* C1: in every reachable state exactly one Node of visibleTreeItems carries
\* aria-selected="true" (none only if visibleTreeItems holds no Node).
C1_ExactlyOneSelected ==
    VisibleNodes # {} => Cardinality(SelectedVisible) = 1

\* C2: in every reachable state no Node of visibleTreeItems has a closed
\* Group among the Groups that enclose its own.
C2_NoNodeBehindClosedGroup ==
    \A n \in VisibleNodes : Shown(open, n)

\* C3: right after updateTreeItems() has run, visibleTreeItems is exactly the
\* sequence of Nodes reachable from the root without passing through a closed
\* Group, in document order.  Stated for the markups that hold a tree item.
C3_RescanIsProjection ==
    (last.upd /\ Nodes # {}) => visibleTreeItems = Projection(open)

\* C4: whenever a Node that did not carry the selected flag comes to carry it,
\* the handler that did so emits a selection-changed notification.
C4_ChangeIsNotified ==
    [][(ariaSelected' \ ariaSelected # {}) => last'.notes # <<>>]_vars

\* C5: every selection-changed notification carries the new selection index
\* and, as selectedItem, the Node at that index of visibleTreeItems.
C5_DetailNamesTheNode ==
    last.op # "init" =>
        \A k \in 1..Len(last.notes) :
            /\ last.notes[k].selectedIndex \in 0..(Len(visibleTreeItems) - 1) =>
                   last.notes[k].selectedItem =
                       Item(visibleTreeItems, last.notes[k].selectedIndex)
            /\ k = Len(last.notes) => last.notes[k].selectedIndex = selectedIndex

\* The state of the widget and of the markup, without the observation.
state == <<open, ariaSelected, tabindex, visibleTreeItems, selectedIndex, loaded, timers>>

C7_ArrowsHomeEnd ==
    [][LET i == selectedIndex
           n == Len(visibleTreeItems)
           op == last'.op
           silent == UNCHANGED state /\ last'.notes = <<>> /\ last'.sel = <<>>
                     /\ last'.foc = <<>>
           selects == \/ op \in {"Home", "End"}
                      \/ op = "ArrowUp" /\ i > 0
                      \/ op = "ArrowDown" /\ i + 1 < n
       IN  (Nodes # {} /\ i \in 0..(n - 1))
           =>  /\ op = "ArrowUp" => IF i > 0 THEN selectedIndex' = i - 1 ELSE silent
               /\ op = "ArrowDown" => IF i + 1 < n THEN selectedIndex' = i + 1 ELSE silent
               /\ op = "Home" => selectedIndex' = 0
               /\ op = "End" => selectedIndex' = n - 1
               /\ selects => SelectedVisible' = {Item(visibleTreeItems', selectedIndex')}]_vars

\* Down Arrow has moved the selection to the last visible Node.
C7_Witness ==
    /\ last.op = "ArrowDown"
    /\ last.sel = <<selectedIndex>>
    /\ Len(last.notes) = 1
    /\ selectedIndex = Len(visibleTreeItems) - 1
    /\ SelectedVisible = {Item(visibleTreeItems, selectedIndex)}

\* C8: once the re-scan scheduled by Right Arrow on the Node at selectedIndex
\* has run (only scheduled callbacks having run in between), that Node's Group
\* is open, its direct child Nodes are in visibleTreeItems, the first of them
\* right after it, and selectedIndex has its value of before the key press and
\* still designates that Node.
C8_ExpandKeepsSelection ==
    (last.op = "timeout" /\ last.watch.node # 0 /\ last.watch.ahead = -1) =>
        LET x == last.watch.node
            at == IndexOf(visibleTreeItems, x)
        IN  /\ open[x]
            /\ at >= 0
            /\ Children(x) \subseteq VisibleNodes
            /\ \A c \in Children(x) :
                   (\A d \in Children(x) : c <= d) => Item(visibleTreeItems, at + 1) = c
            /\ selectedIndex = last.watch.idx0
            /\ Item(visibleTreeItems, selectedIndex) = x

\* C9: after Left Arrow on the Node at selectedIndex, that Node's Group and
\* every Group nested beneath it is closed, visibleTreeItems holds none of its
\* descendants, and the Node is still in visibleTreeItems at the same index.
C9_CollapseKeepsSelection ==
    [][LET x == Item(visibleTreeItems, selectedIndex)
       IN  (last'.op = "ArrowLeft" /\ x \in Nodes) =>
               /\ \A d \in {x} \cup Descendants(x) : ~open'[d]
               /\ Range(visibleTreeItems') \cap Descendants(x) = {}
               /\ selectedIndex' = selectedIndex
               /\ Item(visibleTreeItems', selectedIndex') = x]_vars

\* C10: a click on the label of a Node the page shows selects that Node and
\* then passes it to closeSubfolders, in every reachable state.
C10_ClickSelects ==
    last.op = "click" =>
        /\ Item(visibleTreeItems, selectedIndex) = last.arg
        /\ last.arg \in ariaSelected
        /\ last.csf = <<last.arg>>

\* What querySelectorAll finds for the open flags op, in document order.
Scan(op) == UpdateTreeItems([Now EXCEPT !.open = op]).vis

\* C11: when the delayed callback of closeSubfolders fires for a clicked Node,
\* every Group nested beneath that Node is closed if the Node's own Group is
\* closed at that moment, no open flag changes if it is open, and in both
\* cases visibleTreeItems is scanned again from the resulting flags.
C11_DelayedCloseSubfolders ==
    [][(last'.op = "timeout" /\ last'.timer.kind = "closeSubfolders") =>
         LET item == last'.timer.node
         IN  /\ ~open[item] =>
                   /\ \A d \in Descendants(item) : ~open'[d]
                   /\ \A n \in Nodes \ Descendants(item) : open'[n] = open[n]
             /\ open[item] => open' = open
             /\ last'.upd
             /\ visibleTreeItems' = Scan(open')]_vars

\* The callback has fired for a closed Group that has Groups beneath it.
C11_Witness ==
    /\ last.op = "timeout"
    /\ last.timer.kind = "closeSubfolders"
    /\ ~open[last.timer.node]
    /\ Descendants(last.timer.node) # {}
    /\ last.upd

\* C12: a click inside the widget that lands on no Node (handleTVClick)
\* leaves selectedIndex, the Nodes carrying aria-selected, the open flags and
\* visibleTreeItems as they were and emits no notification.
C12_ClickElsewhereKeepsSelection ==
    [][(last'.op = "tvclick" /\ Nodes # {}) =>
         /\ selectedIndex' = selectedIndex
         /\ ariaSelected' = ariaSelected
         /\ open' = open
         /\ visibleTreeItems' = visibleTreeItems
         /\ last'.notes = <<>>]_vars

\* The setSelected calls of the last handler whose index names an item of
\* visibleTreeItems.
Hits == SelectSeq(last.sel, LAMBDA i : i \in 0..(Len(visibleTreeItems) - 1))

\* C13: on a non-empty tree the setSelected call of initialization calls
\* focus() on no Node and sets the latch (loaded), the latch stays set, and
\* every later setSelected call that selects a Node calls focus() on that
\* Node, and nothing else is focused.
C13_FocusLatch ==
    Nodes # {} =>
        /\ loaded
        /\ last.op = "init" => (last.sel # <<>> /\ last.foc = <<>>)
        /\ last.op # "init" =>
              last.foc = [k \in 1..Len(Hits) |-> Item(visibleTreeItems, Hits[k])]

\* ArrowDown has selected a later Node and focused it.
C13_Witness ==
    /\ last.op = "ArrowDown"
    /\ selectedIndex > 0
    /\ last.sel = <<selectedIndex>>
    /\ last.foc = <<Item(visibleTreeItems, selectedIndex)>>
    /\ last.foc # <<Undefined>>

\* C14: on a non-empty tree the Node at selectedIndex is the only Node of the
\* whole tree with tabindex 0, and every other Node of visibleTreeItems has
\* tabindex -1.
C14_RovingTabStop ==
    Nodes # {} =>
        LET selected == Item(visibleTreeItems, selectedIndex)
        IN  /\ \A n \in Nodes : tabindex[n] = "0" <=> n = selected
            /\ \A n \in VisibleNodes \ {selected} : tabindex[n] = "-1"

\* C15: for a container with no Node, visibleTreeItems is empty and neither
\* initialization nor any later operation has faulted.
C15_EmptyHierarchy ==
    Nodes = {} => (visibleTreeItems = <<>> /\ ~last.fault)

\* C16: a handler whose one setSelected call has an index outside
\* 0..length-1 of visibleTreeItems leaves selectedIndex, every aria-selected
\* and every tabindex as they were and emits no notification.
C16_OutOfRangeIsNoOp ==
    [][(/\ Nodes # {}
        /\ Len(last'.sel) = 1
        /\ last'.sel[1] \notin 0..(Len(visibleTreeItems) - 1)) =>
         /\ selectedIndex' = selectedIndex
         /\ ariaSelected' = ariaSelected
         /\ tabindex' = tabindex
         /\ last'.notes = <<>>]_vars

\* C17: whenever the tree has Nodes, selectedIndex is an index of
\* visibleTreeItems, also after a re-scan has shortened the list.
C17_SelectedIndexInRange ==
    Nodes # {} => selectedIndex \in 0..(Len(visibleTreeItems) - 1)

\* C18: once every scheduled callback has fired, visibleTreeItems is the
\* projection of the open flags (the Nodes all of whose ancestor Groups are
\* open, in document order), and no handler has faulted on the way.
C18_QuiescentIsProjection ==
    (Nodes # {} /\ timers = <<>>) =>
        (visibleTreeItems = Projection(open) /\ ~last.fault)

\* C19: whenever selectedIndex is an index of visibleTreeItems, the Node at
\* that index is the one Node carrying aria-selected.
C19_IndexNamesTheSelectedNode ==
    (Nodes # {} /\ selectedIndex \in 0..(Len(visibleTreeItems) - 1)) =>
        ariaSelected = {Item(visibleTreeItems, selectedIndex)}

\* C20: a handler makes one dispatchEvent call for each change of
\* selectedIndex it makes and no more, and the nesting of listener calls never
\* exhausts the call stack.
C20_OneDispatchPerChange ==
    last.disp = Len(last.notes) /\ ~last.overflow

====
